---------------------------- MODULE Spec2Model ----------------------------
(***************************************************************************)
(* limpyd-jobs: a priority job queue kept in redis.                        *)
(*                                                                         *)
(* Job.add_job (models.py) places a job, found or created by its           *)
(* identifier, in the waiting list of the Queue (name, priority); Worker   *)
(* (workers.py) pops job pks from the waiting lists of its name, highest   *)
(* priority first, runs a callback and records the outcome.                *)
(*                                                                         *)
(* Every redis command is one atomic step.  add_job and Worker.run issue   *)
(* their commands one by one (no pipeline, no transaction), so a step of   *)
(* the model is one command together with the local code around it.        *)
(***************************************************************************)
EXTENDS Integers, Sequences, FiniteSets, TLC

\* ------------------------------------------------------------------ bounds

\* add_job calls made in one behaviour: calls that run one after the other,
\* and calls that run concurrently
MaxAdds == 3
MaxRaceAdds == 2
\* Worker.max_loops of every worker of the model (the code's default is 1000)
MaxLoops == 3
\* termination signals and redis failures (a blpop that raises, a get that
\* raises) in one behaviour
MaxEvents == 1

Identifiers == {"a", "b"}
Names == {"q1", "q2"}
Priorities == {0, 1}
Producers == {"p1", "p2"}
Workers == {"w1", "w2"}

\* -------------------------------------------------------------- constants

\* limpyd_jobs.STATUSES, as used by models.py and workers.py
WAITING == "waiting"
RUNNING == "running"
SUCCESS == "success"
ERROR == "error"
CANCELED == "canceled"

\* a hash field never set (start, end), and one set by str(datetime.utcnow())
NoTime == "unset"
Stamp == "utcnow"

\* Worker.status before run()
None == "none"
\* no job, no queue held in a local variable
NoJob == 0
NoQueue == <<"", 0>>

\* A Queue entity is identified by its tier <<name, priority>>:
\* Queue.get_queue is get_or_connect(name=, priority=), one entity per tier.
Tiers == Names \X Priorities
TierName(t) == t[1]
TierPriority(t) == t[2]

\* The calls add_job(identifier, queue_name, priority, prepend=)
Calls == [identifier : Identifiers, queue_name : Names,
          priority : Priorities, prepend : BOOLEAN]
NoCall == [identifier |-> "", queue_name |-> "", priority |-> 0, prepend |-> FALSE]
NoLast == [call |-> NoCall, job |-> NoJob, created |-> FALSE, current_priority |-> 0]

VARIABLES
    db,     \* redis: the Queue and Job entities, the lists and the Error records
    prod,   \* per producer: where it is in add_job, and add_job's locals
    wk,     \* per worker: where it is in run(), and the Worker's attributes
    hist,   \* per job pk: pushes, pops and callback invocations so far, last queue name
    seen,   \* per worker: dispatches completed, jobs skipped, signal caught in a callback
    env     \* add_job calls and events so far; the last add_job run alone and its result

vars == <<db, prod, wk, hist, seen, env>>

\* ------------------------------------------------------------ redis store

\* Queue.get_queue: the tier is created when it does not exist
GetQueue(d, name, priority) ==
    [d EXCEPT !.queues = @ \cup {<<name, priority>>}]

\* the pks an indexed lookup Job.collection(identifier=, status=WAITING) finds
WaitingJobs(d, identifier) ==
    {pk \in 1..Len(d.jobs) :
        d.jobs[pk].identifier = identifier /\ d.jobs[pk].status = WAITING}

\* cls(identifier=identifier, status=WAITING): a new Job, priority at its default
NewJob(identifier) ==
    [identifier |-> identifier, status |-> WAITING, priority |-> 0,
     start |-> NoTime, end |-> NoTime]

CreateJob(d, identifier) ==
    [d EXCEPT !.jobs = Append(@, NewJob(identifier))]

\* job.status.hset(status)
HSetStatus(d, pk, status) ==
    [d EXCEPT !.jobs[pk].status = status]

\* job.hmset(status=, priority=)
HMSetStatusPriority(d, pk, status, priority) ==
    [d EXCEPT !.jobs[pk].status = status, !.jobs[pk].priority = priority]

RECURSIVE Without(_, _)
Without(list, pk) ==
    IF list = <<>> THEN <<>>
    ELSE IF Head(list) = pk THEN Without(Tail(list), pk)
    ELSE <<Head(list)>> \o Without(Tail(list), pk)

\* queue.waiting.lrem(0, pk): every occurrence of pk leaves the list
LRem(d, tier, pk) ==
    [d EXCEPT !.waiting[tier] = Without(@, pk)]

\* (mutant) rpush whatever prepend is
PushMethodAlwaysRight(list, pk, prepend) ==
    Append(list, pk)

\* (mutant) lpush whatever prepend is
PushMethodAlwaysLeft(list, pk, prepend) ==
    <<pk>> \o list

\* lpush when prepend, else rpush
PushMethod(list, pk, prepend) ==
    IF prepend THEN <<pk>> \o list ELSE Append(list, pk)

PushWaiting(d, tier, pk, prepend) ==
    [d EXCEPT !.waiting[tier] = PushMethod(@, pk, prepend)]

\* (mutant) a job of the same priority is moved too
DontMoveStrict(prepend, current_priority, priority) ==
    ~prepend /\ current_priority > priority

\* add_job's early return: the job keeps its place
DontMove(prepend, current_priority, priority) ==
    ~prepend /\ current_priority >= priority

\* the queue add_job removes the job from
CurrentQueue(queue_name, current_priority) ==
    <<queue_name, current_priority>>

EmptyDb ==
    [queues |-> {},
     waiting |-> [t \in Tiers |-> <<>>],
     success |-> [t \in Tiers |-> <<>>],
     errors |-> [t \in Tiers |-> <<>>],
     jobs |-> <<>>,
     errs |-> <<>>]

\* ------------------------------------------------------------- producers

IdleProducer ==
    [pc |-> "idle", call |-> NoCall, job |-> NoJob, current_priority |-> 0]

NewHist(name) == [pushes |-> 0, pops |-> 0, calls |-> 0, queue_name |-> name]

\* add_job is called: queue = queue_model.get_queue(queue_name, priority)
AddJobGetQueue(p, c) ==
    /\ prod[p].pc = "idle"
    /\ db' = GetQueue(db, c.queue_name, c.priority)
    /\ prod' = [prod EXCEPT ![p] = [@ EXCEPT !.pc = "get_or_connect", !.call = c]]
    /\ env' = [env EXCEPT !.adds = @ + 1]
    /\ UNCHANGED <<wk, hist, seen>>

\* job, created = cls.get_or_connect(identifier=identifier, status=WAITING)
\* limpyd's get raises when the lookup finds more than one job.
AddJobGetOrConnect(p) ==
    LET c == prod[p].call
        found == WaitingJobs(db, c.identifier)
    IN
    /\ prod[p].pc = "get_or_connect"
    /\ IF found = {} THEN
            /\ db' = CreateJob(db, c.identifier)
            /\ hist' = Append(hist, NewHist(c.queue_name))
            /\ prod' = [prod EXCEPT ![p] = [@ EXCEPT !.pc = "hmset", !.job = Len(db.jobs) + 1]]
       ELSE IF Cardinality(found) = 1 THEN
            /\ prod' = [prod EXCEPT ![p] =
                            [@ EXCEPT !.pc = "hget", !.job = CHOOSE pk \in found : TRUE]]
            /\ UNCHANGED <<db, hist>>
       ELSE
            /\ prod' = [prod EXCEPT ![p] = IdleProducer]
            /\ UNCHANGED <<db, hist>>
    /\ UNCHANGED <<wk, seen, env>>

\* current_priority = int(job.priority.hget() or 0), and the early return
AddJobCurrentPriority(p) ==
    LET c == prod[p].call
        current_priority == db.jobs[prod[p].job].priority
    IN
    /\ prod[p].pc = "hget"
    /\ prod' = [prod EXCEPT ![p] =
                    IF DontMove(c.prepend, current_priority, c.priority)
                    THEN IdleProducer
                    ELSE [@ EXCEPT !.pc = "cancel", !.current_priority = current_priority]]
    /\ UNCHANGED <<db, wk, hist, seen, env>>

\* job.status.hset(STATUSES.CANCELED)
AddJobCancel(p) ==
    /\ prod[p].pc = "cancel"
    /\ db' = HSetStatus(db, prod[p].job, CANCELED)
    /\ prod' = [prod EXCEPT ![p].pc = "current_queue"]
    /\ UNCHANGED <<wk, hist, seen, env>>

\* current_queue = queue_model.get_queue(queue_name, current_priority)
AddJobCurrentQueue(p) ==
    /\ prod[p].pc = "current_queue"
    /\ db' = GetQueue(db, prod[p].call.queue_name, prod[p].current_priority)
    /\ prod' = [prod EXCEPT ![p].pc = "lrem"]
    /\ UNCHANGED <<wk, hist, seen, env>>

\* current_queue.waiting.lrem(0, job.get_pk())
AddJobRemove(p) ==
    /\ prod[p].pc = "lrem"
    /\ db' = LRem(db, CurrentQueue(prod[p].call.queue_name, prod[p].current_priority),
                  prod[p].job)
    /\ prod' = [prod EXCEPT ![p].pc = "hmset"]
    /\ UNCHANGED <<wk, hist, seen, env>>

\* job.hmset(status=STATUSES.WAITING, priority=priority)
AddJobSet(p) ==
    /\ prod[p].pc = "hmset"
    /\ db' = HMSetStatusPriority(db, prod[p].job, WAITING, prod[p].call.priority)
    /\ prod' = [prod EXCEPT ![p].pc = "push"]
    /\ UNCHANGED <<wk, hist, seen, env>>

\* push_method(job.get_pk()); return job
AddJobPush(p) ==
    LET c == prod[p].call IN
    /\ prod[p].pc = "push"
    /\ db' = PushWaiting(db, <<c.queue_name, c.priority>>, prod[p].job, c.prepend)
    /\ hist' = [hist EXCEPT ![prod[p].job].pushes = @ + 1,
                            ![prod[p].job].queue_name = c.queue_name]
    /\ prod' = [prod EXCEPT ![p] = IdleProducer]
    /\ UNCHANGED <<wk, seen, env>>

\* ------------------------------------------------- add_job, run alone

\* The whole of Job.add_job with no other add_job running: the commands
\* above, in the order of the code.  The result is the store and the job.
AddJobFound(d, c, pk) ==
    LET current_priority == d.jobs[pk].priority
        canceled == HSetStatus(d, pk, CANCELED)
        current == GetQueue(canceled, c.queue_name, current_priority)
        removed == LRem(current, CurrentQueue(c.queue_name, current_priority), pk)
        set == HMSetStatusPriority(removed, pk, WAITING, c.priority)
    IN
    IF DontMove(c.prepend, current_priority, c.priority)
    THEN [db |-> d, job |-> pk, pushed |-> FALSE, created |-> FALSE,
          current_priority |-> current_priority]
    ELSE [db |-> PushWaiting(set, <<c.queue_name, c.priority>>, pk, c.prepend),
          job |-> pk, pushed |-> TRUE, created |-> FALSE,
          current_priority |-> current_priority]

AddJobCreated(d, c) ==
    LET pk == Len(d.jobs) + 1
        set == HMSetStatusPriority(CreateJob(d, c.identifier), pk, WAITING, c.priority)
    IN
    [db |-> PushWaiting(set, <<c.queue_name, c.priority>>, pk, c.prepend),
     job |-> pk, pushed |-> TRUE, created |-> TRUE, current_priority |-> 0]

AddJobResult(d, c) ==
    LET queued == GetQueue(d, c.queue_name, c.priority)
        found == WaitingJobs(queued, c.identifier)
    IN
    IF found = {} THEN AddJobCreated(queued, c)
    ELSE IF Cardinality(found) = 1 THEN AddJobFound(queued, c, CHOOSE pk \in found : TRUE)
    ELSE [db |-> queued, job |-> NoJob, pushed |-> FALSE, created |-> FALSE,
          current_priority |-> 0]

AddJob(c) ==
    LET res == AddJobResult(db, c)
        known == IF res.created THEN Append(hist, NewHist(c.queue_name)) ELSE hist
    IN
    /\ \A p \in Producers : prod[p].pc = "idle"
    /\ db' = res.db
    /\ hist' = IF res.pushed
               THEN [known EXCEPT ![res.job].pushes = @ + 1,
                                  ![res.job].queue_name = c.queue_name]
               ELSE known
    /\ env' = [env EXCEPT !.adds = @ + 1, !.last = [call |-> c, job |-> res.job, created |-> res.created,
                                 current_priority |-> res.current_priority]]
    /\ UNCHANGED <<prod, wk, seen>>

\* --------------------------------------------------------------- workers

\* Worker attributes set at construction (class defaults unless noted)
name == [w \in Workers |-> "q1"]
terminate_gracefuly == [w \in Workers |-> TRUE]
save_errors == [w \in Workers |-> w = "w1"]

\* Worker.__init__: no keys, no loop, no status.  queue, job and job_status
\* are run()'s locals queue, job and job._status.
IdleWorker ==
    [pc |-> "init", status |-> None, keys |-> <<>>, num_loops |-> 0,
     end_forced |-> FALSE, end_signal_caught |-> FALSE,
     queue |-> NoQueue, job |-> NoJob, job_status |-> None]

\* run()'s locals are dead when the loop starts over: the next pop assigns them
BackToLoop(r) ==
    [r EXCEPT !.pc = "loop", !.queue = NoQueue, !.job = NoJob, !.job_status = None]

\* (mutant) sorted by 'priority': lowest first
SortByPriorityAscending(tiers) ==
    CHOOSE s \in [1..Cardinality(tiers) -> tiers] :
        \A i, j \in 1..Cardinality(tiers) :
            i < j => TierPriority(s[i]) < TierPriority(s[j])

\* collection(name=name).sort(by='-priority'): the tiers of the name, highest first
SortByPriority(tiers) ==
    CHOOSE s \in [1..Cardinality(tiers) -> tiers] :
        \A i, j \in 1..Cardinality(tiers) :
            i < j => TierPriority(s[i]) > TierPriority(s[j])

\* (mutant) the tier of highest priority only
GetKeysHighest(d, queue_name) ==
    LET s == SortByPriority({t \in d.queues : TierName(t) = queue_name})
    IN IF s = <<>> THEN s ELSE <<s[1]>>

\* Queue.get_keys
GetKeys(d, queue_name) ==
    SortByPriority({t \in d.queues : TierName(t) = queue_name})

\* (mutant) only the loop count stops the worker
MustStopLoopsOnly(r, gracefuly) ==
    r.num_loops >= MaxLoops

\* (mutant) the worker stops one loop too late
MustStopLate(r, gracefuly) ==
    \/ gracefuly /\ r.end_signal_caught
    \/ r.num_loops > MaxLoops
    \/ r.end_forced

\* Worker.must_stop
MustStop(r, gracefuly) ==
    \/ gracefuly /\ r.end_signal_caught
    \/ r.num_loops >= MaxLoops
    \/ r.end_forced

\* (mutant) only an aborted run is refused
AlreadyRunAborted(status) == status = "aborted"

\* "if self.status:" at the head of run()
AlreadyRun(status) == status # None

\* the first key of keys whose list is not empty: what blpop pops from
NonEmptyKeys(d, keys) == {i \in 1..Len(keys) : d.waiting[keys[i]] # <<>>}
FirstKey(d, keys) ==
    keys[CHOOSE i \in NonEmptyKeys(d, keys) : \A j \in NonEmptyKeys(d, keys) : i <= j]

\* (mutant) the leftmost pk is read and left in the list
PopLeftKept(list) == list

\* blpop takes the leftmost pk off the list
PopLeft(list) == Tail(list)

\* (mutant) every job is skipped
MustSkipAll(status) == TRUE

\* "if status != STATUSES.WAITING" in run(): the job is skipped
MustSkip(status) == status # WAITING

\* (mutant) job_started sets the start time only
JobStartedNoStatus(job) == [job EXCEPT !.start = Stamp]
\* Worker.job_started: job.hmset(start=, status=RUNNING)
JobStartedWrite(job) == [job EXCEPT !.start = Stamp, !.status = RUNNING]
\* Worker.job_success: job.hmset(end=, status=SUCCESS)
JobSuccessWrite(job) == [job EXCEPT !.end = Stamp, !.status = SUCCESS]
\* (mutant) the failure is recorded as a success
JobErrorAsSuccess(job) == [job EXCEPT !.end = Stamp, !.status = SUCCESS]
\* Worker.job_error: job.hmset(end=, status=ERROR)
JobErrorWrite(job) == [job EXCEPT !.end = Stamp, !.status = ERROR]
\* (mutant) a skipped job is marked as an error
JobSkippedAsError(job) == [job EXCEPT !.status = ERROR]

\* Worker.job_skipped only logs
JobSkippedWrite(job) == job

\* Error.add_error(queue_name=queue.name.hget(), identifier=job._identifier, ...)
\* (job._identifier is the identifier read with the status; it is never rewritten)
AddError(d, queue, pk) ==
    [d EXCEPT !.errs = Append(@, [queue_name |-> TierName(queue),
                                  identifier |-> d.jobs[pk].identifier])]

\* (mutant) update_keys leaves end_forced as it is
UpdateKeysEndForcedKept(end_forced, keys) == end_forced

\* update_keys: end_forced is set when there are no keys
UpdateKeysEndForced(end_forced, keys) == end_forced \/ keys = <<>>

\* run() is called on a worker that is not running.  A second run aborts;
\* a first run gets its keys (update_keys) and aborts without any.
Run(w) ==
    LET r == wk[w]
        keys == GetKeys(db, name[w])
        forced == UpdateKeysEndForced(r.end_forced, keys)
    IN
    /\ r.pc \in {"init", "returned", "raised"}
    /\ wk' = [wk EXCEPT ![w] =
                IF AlreadyRun(r.status)
                THEN [r EXCEPT !.pc = "raised", !.status = "aborted"]
                ELSE IF forced
                THEN [r EXCEPT !.pc = "returned", !.status = "aborted",
                               !.keys = keys, !.end_forced = TRUE]
                ELSE [r EXCEPT !.pc = "loop", !.keys = keys]]
    /\ UNCHANGED <<db, prod, hist, seen, env>>

\* "while not self.must_stop()": the loop ends, or the worker waits for a job
LoopHead(w) ==
    LET r == wk[w] IN
    /\ r.pc = "loop"
    /\ wk' = [wk EXCEPT ![w] =
                IF MustStop(r, terminate_gracefuly[w])
                THEN [r EXCEPT !.pc = "returned", !.status = "terminated"]
                ELSE [r EXCEPT !.pc = "blpop", !.status = "waiting"]]
    /\ UNCHANGED <<db, prod, hist, seen, env>>

\* wait_for_job: blpop returns a pk, the queue and the job are fetched, the
\* loop is counted
WaitForJob(w) ==
    LET r == wk[w] IN
    /\ r.pc = "blpop"
    /\ NonEmptyKeys(db, r.keys) # {}
    /\ LET queue == FirstKey(db, r.keys)
           pk == Head(db.waiting[queue])
       IN
       /\ db' = [db EXCEPT !.waiting[queue] = PopLeft(@)]
       /\ hist' = [hist EXCEPT ![pk].pops = @ + 1]
       /\ wk' = [wk EXCEPT ![w] = [r EXCEPT !.pc = "hmget", !.status = "running",
                                            !.queue = queue, !.job = pk,
                                            !.num_loops = @ + 1]]
    /\ UNCHANGED <<prod, seen, env>>

\* blpop returns None after the timeout: every list stayed empty
WaitTimeout(w) ==
    /\ wk[w].pc = "blpop"
    /\ NonEmptyKeys(db, wk[w].keys) = {}
    /\ wk' = [wk EXCEPT ![w] = BackToLoop(@)]
    /\ UNCHANGED <<db, prod, hist, seen, env>>

\* blpop raises (redis is unreachable): logged, the loop goes on
WaitFails(w) ==
    /\ wk[w].pc = "blpop"
    /\ env.events < MaxEvents
    /\ env' = [env EXCEPT !.events = @ + 1]
    /\ wk' = [wk EXCEPT ![w] = BackToLoop(@)]
    /\ UNCHANGED <<db, prod, hist, seen>>

\* blpop returned a pk but get_queue or get_job raises: logged, the loop goes
\* on, the loop is not counted
ResolveFails(w) ==
    LET r == wk[w] IN
    /\ r.pc = "blpop"
    /\ NonEmptyKeys(db, r.keys) # {}
    /\ env.events < MaxEvents
    /\ env' = [env EXCEPT !.events = @ + 1]
    /\ LET queue == FirstKey(db, r.keys)
           pk == Head(db.waiting[queue])
       IN
       /\ db' = [db EXCEPT !.waiting[queue] = PopLeft(@)]
       /\ hist' = [hist EXCEPT ![pk].pops = @ + 1]
    /\ wk' = [wk EXCEPT ![w] = BackToLoop([r EXCEPT !.status = "running"])]
    /\ UNCHANGED <<prod, seen>>

\* identifier, status = job.hmget('identifier', 'status')
ReadStatus(w) ==
    /\ wk[w].pc = "hmget"
    /\ wk' = [wk EXCEPT ![w] = [@ EXCEPT !.pc = "dispatch",
                                         !.job_status = db.jobs[wk[w].job].status]]
    /\ UNCHANGED <<db, prod, hist, seen, env>>

\* the job is not waiting: job_skipped
JobSkipped(w) ==
    LET r == wk[w] IN
    /\ r.pc = "dispatch"
    /\ MustSkip(r.job_status)
    /\ db' = [db EXCEPT !.jobs[r.job] = JobSkippedWrite(@)]
    /\ seen' = [seen EXCEPT ![w].done = @ + 1, ![w].skipped = @ + 1]
    /\ wk' = [wk EXCEPT ![w] = BackToLoop(r)]
    /\ UNCHANGED <<prod, hist, env>>

\* the job is waiting: job_started, then the callback is called
JobStarted(w) ==
    LET r == wk[w] IN
    /\ r.pc = "dispatch"
    /\ ~MustSkip(r.job_status)
    /\ db' = [db EXCEPT !.jobs[r.job] = JobStartedWrite(@)]
    /\ hist' = [hist EXCEPT ![r.job].calls = @ + 1]
    /\ wk' = [wk EXCEPT ![w].pc = "callback"]
    /\ UNCHANGED <<prod, seen, env>>

\* job_started raises (its hmset fails, or the failure comes after the write):
\* the callback is not called, the except branch calls job_error
JobStartedFails(w) ==
    LET r == wk[w] IN
    /\ r.pc = "dispatch"
    /\ ~MustSkip(r.job_status)
    /\ env.events < MaxEvents
    /\ env' = [env EXCEPT !.events = @ + 1]
    /\ \/ db' = db
       \/ db' = [db EXCEPT !.jobs[r.job] = JobStartedWrite(@)]
    /\ wk' = [wk EXCEPT ![w].pc = "except"]
    /\ UNCHANGED <<prod, hist, seen>>

\* the callback returns: job_success writes the status ...
JobSuccess(w) ==
    LET r == wk[w] IN
    /\ r.pc = "callback"
    /\ db' = [db EXCEPT !.jobs[r.job] = JobSuccessWrite(@)]
    /\ wk' = [wk EXCEPT ![w].pc = "success"]
    /\ UNCHANGED <<prod, hist, seen, env>>

\* ... and queue.success.rpush(job.get_pk())
JobSuccessPush(w) ==
    LET r == wk[w] IN
    /\ r.pc = "success"
    /\ db' = [db EXCEPT !.success[r.queue] = Append(@, r.job)]
    /\ seen' = [seen EXCEPT ![w].done = @ + 1]
    /\ wk' = [wk EXCEPT ![w] = BackToLoop(r)]
    /\ UNCHANGED <<prod, hist, env>>

\* the callback raises, or job_started has raised: job_error writes the status ...
JobError(w) ==
    LET r == wk[w] IN
    /\ r.pc \in {"callback", "except"}
    /\ db' = [db EXCEPT !.jobs[r.job] = JobErrorWrite(@)]
    /\ wk' = [wk EXCEPT ![w].pc = "error"]
    /\ UNCHANGED <<prod, hist, seen, env>>

\* ... queue.errors.rpush(job.get_pk()), and the Error record if save_errors
JobErrorPush(w) ==
    LET r == wk[w]
        pushed == [db EXCEPT !.errors[r.queue] = Append(@, r.job)]
    IN
    /\ r.pc = "error"
    /\ db' = IF save_errors[w] THEN AddError(pushed, r.queue, r.job) ELSE pushed
    /\ seen' = [seen EXCEPT ![w].done = @ + 1]
    /\ wk' = [wk EXCEPT ![w] = BackToLoop(r)]
    /\ UNCHANGED <<prod, hist, env>>

\* catch_end_signal: SIGTERM or SIGINT reaches the worker's process
CatchEndSignal(w) ==
    /\ terminate_gracefuly[w]
    /\ env.events < MaxEvents
    /\ env' = [env EXCEPT !.events = @ + 1]
    /\ wk' = [wk EXCEPT ![w].end_signal_caught = TRUE, ![w].end_forced = TRUE]
    /\ seen' = [seen EXCEPT ![w].in_callback = @ \/ wk[w].pc = "callback"]
    /\ UNCHANGED <<db, prod, hist>>

\* ---------------------------------------------------------- specification

Init ==
    /\ db = EmptyDb
    /\ prod = [p \in Producers |-> IdleProducer]
    /\ wk = [w \in Workers |-> IdleWorker]
    /\ hist = <<>>
    /\ seen = [w \in Workers |-> [done |-> 0, skipped |-> 0, in_callback |-> FALSE]]
    /\ env = [adds |-> 0, events |-> 0, last |-> NoLast]

WorkerStep(w) ==
    \/ Run(w)
    \/ LoopHead(w)
    \/ WaitForJob(w)
    \/ WaitTimeout(w)
    \/ WaitFails(w)
    \/ ResolveFails(w)
    \/ ReadStatus(w)
    \/ JobSkipped(w)
    \/ JobStarted(w)
    \/ JobStartedFails(w)
    \/ JobSuccess(w)
    \/ JobSuccessPush(w)
    \/ JobError(w)
    \/ JobErrorPush(w)

ProducerStep(p) ==
    \/ AddJobGetOrConnect(p)
    \/ AddJobCurrentPriority(p)
    \/ AddJobCancel(p)
    \/ AddJobCurrentQueue(p)
    \/ AddJobRemove(p)
    \/ AddJobSet(p)
    \/ AddJobPush(p)

\* Producers and workers, every redis command a step of its own; no
\* termination signal is sent
Next ==
    \/ env.adds < MaxRaceAdds /\ \E p \in Producers, c \in Calls : AddJobGetQueue(p, c)
    \/ \E p \in Producers : ProducerStep(p)
    \/ \E w \in Workers : WorkerStep(w)

Spec == Init /\ [][Next]_vars

\* Concurrent add_job calls alone, no worker running
NextProducers ==
    \/ env.adds < MaxAdds /\ \E p \in Producers, c \in Calls : AddJobGetQueue(p, c)
    \/ \E p \in Producers : ProducerStep(p)

SpecProducers == Init /\ [][NextProducers]_vars

\* add_job calls one after the other, each run to its end, and one worker,
\* which termination signals may reach
NextSeq ==
    \/ env.adds < MaxAdds /\ \E c \in Calls : AddJob(c)
    \/ WorkerStep("w1")
    \/ CatchEndSignal("w1")

SpecSeq == Init /\ [][NextSeq]_vars

\* Producers and workers as in Spec, where every tier of the workers' name
\* exists before the workers start and every job is added under that name;
\* each producer goes on with the add_job call it is in, each worker goes on
\* with run(), and a callback returns or raises
ServedTiers == {t \in Tiers : \E w \in Workers : TierName(t) = name[w]}
ServedCalls == {c \in Calls : \E w \in Workers : c.queue_name = name[w]}

InitLive ==
    /\ db = [EmptyDb EXCEPT !.queues = ServedTiers]
    /\ prod = [p \in Producers |-> IdleProducer]
    /\ wk = [w \in Workers |-> IdleWorker]
    /\ hist = <<>>
    /\ seen = [w \in Workers |-> [done |-> 0, skipped |-> 0, in_callback |-> FALSE]]
    /\ env = [adds |-> 0, events |-> 0, last |-> NoLast]

NextLive ==
    \/ env.adds < MaxRaceAdds /\ \E p \in Producers, c \in ServedCalls : AddJobGetQueue(p, c)
    \/ \E p \in Producers : ProducerStep(p)
    \/ \E w \in Workers : WorkerStep(w)

SpecLive ==
    /\ InitLive /\ [][NextLive]_vars
    /\ \A p \in Producers : WF_vars(ProducerStep(p))
    /\ \A w \in Workers : WF_vars(WorkerStep(w))

\* ----------------------------------------------------------------- claims

Range(list) == {list[i] : i \in 1..Len(list)}
Pks == 1..Len(db.jobs)
NoAddJobRunning == \A p \in Producers : prod[p].pc = "idle"
\* the tiers whose waiting list holds the pk
TiersOf(pk) == {t \in Tiers : pk \in Range(db.waiting[t])}

\* C1: for every identifier, at most one Job has that identifier and the
\* status WAITING, whatever the interleaving of the add_job calls.
C1_UniqueWaiting ==
    \A i \in Identifiers : Cardinality(WaitingJobs(db, i)) <= 1

\* C2: when no add_job call is running, no job pk is in the waiting lists of
\* two different Queues.
C2_OneWaitingList ==
    NoAddJobRunning => \A pk \in Pks : Cardinality(TiersOf(pk)) <= 1

\* C3: when no add_job call is running, every Job with status WAITING has its
\* pk in exactly one Queue's waiting list: the Queue of the name the job was
\* enqueued under and of the job's priority.
C3_WaitingIsListed ==
    NoAddJobRunning =>
        \A pk \in Pks :
            db.jobs[pk].status = WAITING =>
                TiersOf(pk) = {<<hist[pk].queue_name, db.jobs[pk].priority>>}

\* An add_job call run alone has just returned (SpecSeq): the call, and the
\* waiting job of its identifier that the call found
Called == env'.adds = env.adds + 1
TheCall == env'.last.call
Existing(c) == WaitingJobs(db, c.identifier)
Max(a, b) == IF a >= b THEN a ELSE b

\* C4: add_job(I, q, p_new, prepend=false), when a waiting job of I exists at
\* priority p_cur, returns that job and leaves it at max(p_cur, p_new).  If
\* p_cur >= p_new nothing changes: no job field, no list.  If p_new > p_cur
\* the pk leaves the list of (q, p_cur) and is appended to the list of (q, p_new).
C4_Step ==
    \A pk \in Pks :
        (Called /\ ~TheCall.prepend /\ Existing(TheCall) = {pk}) =>
            LET q == TheCall.queue_name
                p_new == TheCall.priority
                p_cur == db.jobs[pk].priority
            IN
            /\ env'.last.job = pk
            /\ db'.jobs[pk].priority = Max(p_cur, p_new)
            /\ db'.jobs[pk].status = WAITING
            /\ p_cur >= p_new =>
                    /\ db'.jobs = db.jobs
                    /\ db'.waiting = db.waiting
                    /\ db'.success = db.success
                    /\ db'.errors = db.errors
            /\ p_new > p_cur =>
                    /\ pk \notin Range(db'.waiting[<<q, p_cur>>])
                    /\ db'.waiting[<<q, p_new>>] = Append(db.waiting[<<q, p_new>>], pk)
                    /\ \A t \in Tiers \ {<<q, p_cur>>, <<q, p_new>>} :
                            db'.waiting[t] = db.waiting[t]

C4_NoDemotion == [][C4_Step]_vars

\* C4 happens: the last call, without prepend, found job at priority 0 and
\* moved it behind another job of the tier of priority 1
C4_Witness ==
    LET l == env.last IN
    /\ l.job # NoJob /\ ~l.created /\ ~l.call.prepend
    /\ l.current_priority = 0 /\ l.call.priority = 1
    /\ Len(db.waiting[<<l.call.queue_name, 1>>]) = 2
    /\ db.waiting[<<l.call.queue_name, 1>>][2] = l.job
    /\ db.jobs[l.job].priority = 1

\* C5: add_job(I, q, p_new, prepend=true), when a waiting job of I exists at
\* priority p_cur, ends with the job WAITING at priority p_new, its pk the
\* head of the list of (q, p_new) and, when p_cur differs, not in the list of
\* (q, p_cur); also when p_new <= p_cur.
C5_Step ==
    \A pk \in Pks :
        (Called /\ TheCall.prepend /\ Existing(TheCall) = {pk}) =>
            LET q == TheCall.queue_name
                p_new == TheCall.priority
                p_cur == db.jobs[pk].priority
            IN
            /\ env'.last.job = pk
            /\ db'.jobs[pk].priority = p_new
            /\ db'.jobs[pk].status = WAITING
            /\ db'.waiting[<<q, p_new>>] # <<>>
            /\ Head(db'.waiting[<<q, p_new>>]) = pk
            /\ p_cur # p_new => pk \notin Range(db'.waiting[<<q, p_cur>>])

C6_AtMostOnce ==
    \A pk \in Pks :
        /\ hist[pk].pops <= hist[pk].pushes
        /\ hist[pk].calls <= hist[pk].pops

\* C6 happens: two workers each popped a job and invoked the callback on it
C6_Witness ==
    /\ wk["w1"].pc = "callback" /\ wk["w2"].pc = "callback"
    /\ wk["w1"].job # wk["w2"].job
    /\ \A w \in Workers : hist[wk[w].job].pops = 1 /\ hist[wk[w].job].calls = 1

\* A worker's blpop has just returned a pk: the tier it came from
Popped(w, t) ==
    /\ wk[w].pc = "blpop" /\ wk'[w].pc # "blpop"
    /\ db'.waiting[t] # db.waiting[t]
Higher(t, u) == TierName(u) = TierName(t) /\ TierPriority(u) > TierPriority(t)

\* C7 as claimed: when blpop returns a pk from a tier, every tier of the same
\* name and a greater priority has an empty waiting list.
C7_AllTiers ==
    [][\A w \in Workers, t \in Tiers :
            Popped(w, t) => \A u \in db.queues : Higher(t, u) => db.waiting[u] = <<>>]_vars

\* C7, amended: when blpop returns a pk from a tier, every tier of greater
\* priority among the worker's keys (the tiers of its name that existed when
\* run() started) has an empty waiting list.
C7_StrictPriority ==
    [][\A w \in Workers, t \in Tiers :
            Popped(w, t) =>
                /\ t \in Range(wk[w].keys)
                /\ \A u \in Range(wk[w].keys) : Higher(t, u) => db.waiting[u] = <<>>]_vars

\* C7 happens: a worker listening to both tiers of its name popped from the
\* higher one while the lower one held a job
C7_Witness ==
    \E w \in Workers :
        /\ wk[w].pc = "hmget"
        /\ wk[w].keys = <<<<name[w], 1>>, <<name[w], 0>>>>
        /\ wk[w].queue = <<name[w], 1>>
        /\ db.waiting[<<name[w], 0>>] # <<>>

\* run() has just been called on a worker that had returned from run()
RunAgain(w) ==
    /\ wk[w].pc \in {"returned", "raised"}
    /\ wk[w].status \in {"terminated", "aborted"}
    /\ wk'[w] # wk[w]
    /\ env' = env

\* C8: run() on a worker whose status is not None raises, sets the status to
\* 'aborted' and does nothing else: no pop, no callback, num_loops, jobs and
\* queues as they were.
C8_RunOnce ==
    [][\A w \in Workers :
            RunAgain(w) =>
                /\ wk'[w] = [wk[w] EXCEPT !.pc = "raised", !.status = "aborted"]
                /\ db' = db
                /\ hist' = hist
                /\ seen' = seen]_vars

\* C8 happens: a worker that looped and terminated was run again
C8_Witness ==
    \E w \in Workers :
        /\ wk[w].pc = "raised" /\ wk[w].status = "aborted"
        /\ wk[w].num_loops > 0

\* a worker leaves the dispatch of a job whose status it read as not WAITING
Skips(w) ==
    /\ wk[w].pc = "dispatch" /\ wk[w].job_status # WAITING
    /\ wk'[w].pc # "dispatch"

\* C9: when the status a worker read after the pop is not WAITING, the
\* callback is not invoked for that pop, and the skip changes no Job field and
\* no success or errors list.
C9_Skip ==
    /\ [](\A w \in Workers :
            wk[w].pc \in {"callback", "success", "error"} => wk[w].job_status = WAITING)
    /\ [][\A w \in Workers :
            Skips(w) =>
                /\ wk'[w].pc = "loop"
                /\ db' = db
                /\ hist'[wk[w].job].calls = hist[wk[w].job].calls]_vars

\* C9 happens: a worker skipped a job, which add_job had canceled for a move
C9_Witness ==
    \E w \in Workers :
        /\ seen[w].skipped = 1 /\ wk[w].pc = "loop"
        /\ \E pk \in Pks : hist[pk].pops = 1 /\ hist[pk].calls = 0
                           /\ db.jobs[pk].status = CANCELED
                           /\ db.jobs[pk].start = NoTime /\ db.jobs[pk].end = NoTime

\* C10: a signal caught while the worker is in the callback lets the callback
\* end and its outcome be recorded (SUCCESS and the success list when it
\* returns); the worker then pops no more and invokes no callback, and run()
\* ends 'terminated' with num_loops the number of dispatches completed.
C10_Graceful ==
    /\ [](\A w \in Workers :
            seen[w].in_callback =>
                /\ wk[w].pc \in {"callback", "success", "error", "loop", "returned", "raised"}
                /\ wk[w].pc = "returned" =>
                        wk[w].status = "terminated" /\ wk[w].num_loops = seen[w].done)
    /\ [][\A w \in Workers :
            seen[w].in_callback =>
                /\ (wk[w].pc = "callback" /\ wk'[w].pc = "success") =>
                        db'.jobs[wk[w].job].status = SUCCESS
                /\ (wk[w].pc = "success" /\ wk'[w].pc # "success") =>
                        /\ db'.success[wk[w].queue] = Append(db.success[wk[w].queue], wk[w].job)
                        /\ wk'[w].pc = "loop"
                /\ (wk[w].pc = "loop" /\ wk'[w].pc # "loop") =>
                        wk'[w].pc = "returned"]_vars

\* C10 happens: run() ended after a signal caught in the callback of the
\* worker's first job, which is recorded as a success
C10_Witness ==
    \E w \in Workers :
        /\ seen[w].in_callback
        /\ wk[w].pc = "returned" /\ wk[w].status = "terminated"
        /\ wk[w].num_loops = 1
        /\ \E pk \in Pks, t \in Tiers :
                db.jobs[pk].status = SUCCESS /\ db.success[t] = <<pk>>

\* a worker's job_error has just written the status; has just pushed the pk
Fails(w) == wk[w].pc \in {"callback", "except"} /\ wk'[w].pc = "error"
FailsPush(w) == wk[w].pc = "error" /\ wk'[w].pc # "error"
ErrorOf(w) ==
    [queue_name |-> TierName(wk[w].queue), identifier |-> db.jobs[wk[w].job].identifier]

\* C11: when the callback (or job_started) raises, the Job's status becomes
\* ERROR, the pk is right-pushed once onto the errors list of the Queue it was
\* popped from and onto no success list, one Error record with the job's
\* identifier and the queue's name is created if save_errors and none if not,
\* and the worker goes back to its loop.
C11_FailurePath ==
    [][/\ \A w \in Workers :
            /\ Fails(w) =>
                    /\ db'.jobs[wk[w].job].status = ERROR
                    /\ db'.errors = db.errors /\ db'.success = db.success
                    /\ db'.errs = db.errs
            /\ FailsPush(w) =>
                    /\ db'.errors = [db.errors EXCEPT ![wk[w].queue] = Append(@, wk[w].job)]
                    /\ db'.success = db.success
                    /\ db'.errs = IF save_errors[w] THEN Append(db.errs, ErrorOf(w))
                                  ELSE db.errs
                    /\ wk'[w] = BackToLoop(wk[w])
       /\ (db'.errors # db.errors \/ db'.errs # db.errs) =>
            \E w \in Workers : FailsPush(w)]_vars

\* C11 happens: a job failed in each worker; only the worker with save_errors
\* left an Error record, and both went on with their loop
C11_Witness ==
    /\ \E t \in Tiers : Len(db.errors[t]) = 2
    /\ Len(db.errs) = 1
    /\ \A w \in Workers : wk[w].pc = "blpop" /\ wk[w].num_loops = 1
    /\ \A pk \in Pks : db.jobs[pk].status = ERROR

\* the job was pushed once and no add_job call is moving it
Moving(pk) ==
    \E p \in Producers :
        prod[p].job = pk /\ prod[p].pc \in {"current_queue", "lrem", "hmset", "push"}
EnqueuedOnce(pk) == hist[pk].pushes = 1 /\ ~Moving(pk)
Count(list, pk) == Cardinality({i \in 1..Len(list) : list[i] = pk})
SuccessTiers(pk) == {t \in Tiers : pk \in Range(db.success[t])}
ErrorsTiers(pk) == {t \in Tiers : pk \in Range(db.errors[t])}
InSuccess(w) == wk[w].pc = "success"

\* C12: a job enqueued once, whose callback returns, has its callback invoked
\* once, its status goes WAITING, RUNNING, SUCCESS, its pk is right-pushed once
\* onto the success list of the Queue it was popped from, and it is then in
\* no errors list and in no waiting list.
C12_SuccessPath ==
    /\ [](\A pk \in Pks :
            EnqueuedOnce(pk) =>
                /\ hist[pk].calls <= 1
                /\ SuccessTiers(pk) # {} => db.jobs[pk].status = SUCCESS
                /\ db.jobs[pk].status = SUCCESS =>
                        /\ hist[pk].calls = 1
                        /\ TiersOf(pk) = {}
                        /\ ErrorsTiers(pk) = {}
                        /\ IF \E w \in Workers : InSuccess(w) /\ wk[w].job = pk
                           THEN SuccessTiers(pk) = {}
                           ELSE \E t \in Tiers :
                                    /\ SuccessTiers(pk) = {t}
                                    /\ Count(db.success[t], pk) = 1)
    /\ [][/\ \A pk \in Pks :
                (EnqueuedOnce(pk) /\ EnqueuedOnce(pk)'
                    /\ db'.jobs[pk].status # db.jobs[pk].status) =>
                    <<db.jobs[pk].status, db'.jobs[pk].status>> \in
                        {<<WAITING, RUNNING>>, <<RUNNING, SUCCESS>>,
                         <<RUNNING, ERROR>>, <<WAITING, ERROR>>}
          /\ \A w \in Workers :
                (InSuccess(w) /\ ~InSuccess(w)') =>
                    db'.success = [db.success EXCEPT ![wk[w].queue] = Append(@, wk[w].job)]
          /\ db'.success # db.success =>
                \E w \in Workers : InSuccess(w) /\ ~InSuccess(w)']_vars

\* C12 happens: a job pushed once was run to its end by a worker and is in
\* the success list of its tier, while another job still waits there
C12_Witness ==
    \E pk \in Pks, t \in Tiers :
        /\ EnqueuedOnce(pk) /\ hist[pk].pops = 1 /\ hist[pk].calls = 1
        /\ db.jobs[pk].status = SUCCESS /\ db.jobs[pk].start = Stamp /\ db.jobs[pk].end = Stamp
        /\ db.success[t] = <<pk>> /\ t = <<hist[pk].queue_name, db.jobs[pk].priority>>
        /\ db.waiting[t] # <<>>
        /\ \A w \in Workers : wk[w].pc \in {"init", "loop"}

\* the list without the pk: the other jobs, in their order
Others(list, pk) == SelectSeq(list, LAMBDA x : x # pk)
\* the add_job call that has just returned pushed the pk
PushCount(h, pk) == IF pk <= Len(h) THEN h[pk].pushes ELSE 0
Pushed(pk) == Called /\ env'.last.job = pk /\ PushCount(hist', pk) = PushCount(hist, pk) + 1
Last(list) == list[Len(list)]

\* C13: a waiting list is popped from its head; add_job without prepend puts
\* the pk behind every job of the tier's list and add_job with prepend puts
\* it before every job of the list; nothing else changes the order of the
\* jobs in a list.  So jobs added without prepend to a tier are popped in
\* the order they were added, and a prepended job is popped before every
\* job that was in the list at its push.
C13_Fifo ==
    [][/\ \A w \in Workers, t \in Tiers :
            Popped(w, t) =>
                /\ db'.waiting = [db.waiting EXCEPT ![t] = Tail(@)]
                /\ wk'[w].pc = "hmget" => wk'[w].job = Head(db.waiting[t])
       /\ Called =>
            LET pk == env'.last.job
                target == <<TheCall.queue_name, TheCall.priority>>
            IN
            /\ \A t \in Tiers : Others(db'.waiting[t], pk) = Others(db.waiting[t], pk)
            /\ \A t \in Tiers \ {target} :
                    Count(db'.waiting[t], pk) <= Count(db.waiting[t], pk)
            /\ Pushed(pk) =>
                    /\ db'.waiting[target] # <<>>
                    /\ IF TheCall.prepend
                       THEN Head(db'.waiting[target]) = pk
                       ELSE Last(db'.waiting[target]) = pk
            /\ ~Pushed(pk) => db'.waiting = db.waiting
       /\ db'.waiting # db.waiting =>
            \/ Called
            \/ \E w \in Workers, t \in Tiers : Popped(w, t)]_vars

\* C13 happens: job 1 was pushed once and has waited since; job 2, created
\* and pushed later, was popped from the same list before it: job 2 was
\* prepended and went before the job that was in the list
C13_Witness ==
    \E w \in Workers :
        /\ wk[w].pc = "hmget" /\ wk[w].job = 2
        /\ db.waiting[wk[w].queue] = <<1>>
        /\ hist[1].pushes = 1 /\ hist[1].pops = 0
        /\ hist[2].pushes = 1 /\ hist[2].pops = 1

\* the worker holds a job it popped and resolved, and has not finished with it
Dispatching(w) ==
    wk[w].pc \in {"hmget", "dispatch", "except", "callback", "success", "error"}
Resolved(w) == wk[w].pc = "blpop" /\ wk'[w].pc = "hmget"

\* C14: num_loops grows by one at each pop that gives a Queue and a Job, and
\* at nothing else (not at a timeout, a failed pop or a failed resolution);
\* it counts the jobs executed or skipped, never exceeds max_loops, and the
\* worker pops nothing once it has reached max_loops.
C14_LoopCount ==
    /\ [](\A w \in Workers :
            /\ wk[w].num_loops <= MaxLoops
            /\ wk[w].pc = "blpop" => wk[w].num_loops < MaxLoops
            /\ wk[w].num_loops = seen[w].done + (IF Dispatching(w) THEN 1 ELSE 0))
    /\ [][\A w \in Workers :
            /\ Resolved(w) => wk'[w].num_loops = wk[w].num_loops + 1
            /\ ~Resolved(w) => wk'[w].num_loops = wk[w].num_loops
            /\ \A t \in Tiers : Popped(w, t) => wk[w].num_loops < MaxLoops]_vars

\* C14 happens: the worker ended its run at max_loops, one job skipped among
\* them, after a failure that was not counted
C14_Witness ==
    \E w \in Workers :
        /\ wk[w].pc = "returned" /\ wk[w].status = "terminated"
        /\ ~wk[w].end_signal_caught
        /\ wk[w].num_loops = MaxLoops
        /\ seen[w].skipped = 1
        /\ env.events = 1

\* the worker caught a termination signal while its status was 'waiting'
SignalledWaiting(w) == wk[w].end_signal_caught /\ wk[w].status = "waiting"

\* C15: after a signal caught while the worker's status is 'waiting', the
\* worker's steps pop nothing, invoke no callback and record no outcome: the
\* worker leaves the loop and run() ends 'terminated'.
C15_StopsNow ==
    [][\A w \in Workers :
            (SignalledWaiting(w) /\ wk'[w] # wk[w]) =>
                /\ db' = db
                /\ hist' = hist
                /\ wk'[w].pc \in {"loop", "returned"}
                /\ wk'[w].pc = "returned" => wk'[w].status = "terminated"]_vars

\* C15's case: the signal was caught at the blocking pop, before it returned
C15_Witness ==
    \E w \in Workers : SignalledWaiting(w) /\ wk[w].pc = "blpop"

\* run() is called on a worker for the first time
FirstRun(w) == wk[w].pc = "init" /\ wk'[w].pc # "init"
TiersNamed(queue_name) == {t \in db.queues : TierName(t) = queue_name}

\* C16: the worker's keys are set once, at the start of run(), to all the
\* tiers of its name by descending priority; no later step changes them, and
\* the worker pops from its keys only, so never from a tier created since.
C16_KeysSnapshot ==
    [][\A w \in Workers :
            /\ FirstRun(w) =>
                    /\ Range(wk'[w].keys) = TiersNamed(name[w])
                    /\ Len(wk'[w].keys) = Cardinality(TiersNamed(name[w]))
                    /\ \A i, j \in 1..Len(wk'[w].keys) :
                            i < j => TierPriority(wk'[w].keys[i]) > TierPriority(wk'[w].keys[j])
            /\ ~FirstRun(w) => wk'[w].keys = wk[w].keys
            /\ \A t \in Tiers : Popped(w, t) => t \in Range(wk[w].keys)]_vars

\* C16 happens: a worker started with the tier of priority 0 alone has popped
\* from it while the tier of priority 1 of its name, created since, holds a job
C16_Witness ==
    \E w \in Workers :
        /\ wk[w].pc = "hmget"
        /\ wk[w].keys = <<<<name[w], 0>>>>
        /\ wk[w].queue = <<name[w], 0>>
        /\ <<name[w], 1>> \in db.queues
        /\ db.waiting[<<name[w], 1>>] # <<>>

\* run() has returned on its first call, with this status
Returned(w, status) == wk[w].pc = "returned" /\ wk[w].status = status
NothingDone(w) == wk[w].num_loops = 0 /\ seen[w].done = 0 /\ wk[w].job = NoJob

\* C17 as claimed: run() on a fresh worker returns 'aborted', end_forced set,
\* nothing popped or called and num_loops 0, if no Queue of its name exists;
\* if one exists the loop starts and a run that returns ends 'terminated'.
C17_AbortIffNoQueues ==
    /\ [][\A w \in Workers :
            FirstRun(w) =>
                IF TiersNamed(name[w]) = {}
                THEN /\ wk'[w].pc = "returned" /\ wk'[w].status = "aborted"
                     /\ wk'[w].end_forced
                     /\ db' = db /\ hist' = hist
                ELSE wk'[w].pc = "loop"]_vars
    /\ [](\A w \in Workers :
            /\ Returned(w, "aborted") => NothingDone(w) /\ wk[w].keys = <<>>
            /\ wk[w].pc = "returned" /\ wk[w].keys # <<>> => wk[w].status = "terminated")

\* C17, amended: run() on a fresh worker returns 'aborted', end_forced set,
\* nothing popped or called and num_loops 0, if no Queue of its name exists
\* or if a termination signal was caught before run() was called; otherwise
\* the loop starts and a run that returns ends 'terminated'.
C17_Abort ==
    /\ [][\A w \in Workers :
            FirstRun(w) =>
                IF TiersNamed(name[w]) = {} \/ wk[w].end_signal_caught
                THEN /\ wk'[w].pc = "returned" /\ wk'[w].status = "aborted"
                     /\ wk'[w].end_forced
                     /\ db' = db /\ hist' = hist
                ELSE wk'[w].pc = "loop"]_vars
    /\ [](\A w \in Workers :
            /\ Returned(w, "aborted") =>
                    /\ NothingDone(w)
                    /\ wk[w].keys = <<>> \/ wk[w].end_signal_caught
            /\ wk[w].pc = "returned" /\ ~Returned(w, "aborted") => wk[w].status = "terminated")

\* C17 happens: a worker was run while a job waited under another name and
\* no Queue of its own name existed: it returned 'aborted' with nothing done
C17_Witness ==
    \E w \in Workers :
        /\ Returned(w, "aborted") /\ wk[w].end_forced /\ ~wk[w].end_signal_caught
        /\ wk[w].keys = <<>> /\ wk[w].num_loops = 0
        /\ \E t \in db.queues : db.waiting[t] # <<>>

\* C18: no two workers are inside the callback for the same job pk at the
\* same time, whatever the interleaving of add_job calls and workers.
C18_NoConcurrentExecution ==
    \A v, w \in Workers :
        (v # w /\ wk[v].pc = "callback" /\ wk[w].pc = "callback") => wk[v].job # wk[w].job

\* C18's case: two workers have each popped the same job pk, pushed twice
C18_Witness ==
    \E v, w \in Workers :
        /\ v # w /\ wk[v].job # NoJob /\ wk[v].job = wk[w].job
        /\ hist[wk[v].job].pushes = 2 /\ hist[wk[v].job].pops = 2

Terminal(status) == status \in {SUCCESS, ERROR}

\* C19: a Job status written as SUCCESS or ERROR never changes again, every
\* pk in a success list has status SUCCESS and every pk in an errors list has
\* status ERROR.
C19_TerminalStable ==
    /\ [][\A pk \in Pks :
            Terminal(db.jobs[pk].status) => db'.jobs[pk].status = db.jobs[pk].status]_vars
    /\ [](\A pk \in Pks, t \in Tiers :
            /\ pk \in Range(db.success[t]) => db.jobs[pk].status = SUCCESS
            /\ pk \in Range(db.errors[t]) => db.jobs[pk].status = ERROR)

\* C19's case: a job has ended in SUCCESS while an add_job call that found it
\* waiting has not yet written its status
C19_Witness ==
    \E pk \in Pks, p \in Producers :
        /\ db.jobs[pk].status = SUCCESS
        /\ prod[p].job = pk /\ prod[p].pc \in {"cancel", "hmset"}

\* every waiting list is empty and every job has ended
Quiet ==
    /\ \A t \in Tiers : db.waiting[t] = <<>>
    /\ \A pk \in Pks : Terminal(db.jobs[pk].status)

\* every pk popped so far was resolved to a Queue and a Job: the pops of all
\* the jobs are the loops of all the workers
RECURSIVE SumPops(_)
SumPops(h) == IF h = <<>> THEN 0 ELSE Head(h).pops + SumPops(Tail(h))
RECURSIVE SumLoops(_)
SumLoops(ws) ==
    IF ws = {} THEN 0
    ELSE LET w == CHOOSE x \in ws : TRUE IN wk[w].num_loops + SumLoops(ws \ {w})
NoLostPop == SumPops(hist) = SumLoops(Workers)

=============================================================================
